---- MODULE Spec2Model ----
(***************************************************************************)
(* Aircraft tire selector: the physics oracle (models.py, class Tire), the *)
(* feasibility predicate (randSearch.is_geo_valid and its inlined copies)  *)
(* and the search strategies of optimizations/*.py and optimizer.py.       *)
(*                                                                         *)
(* Numbers.  Lengths are whole inches and PR is a whole number.  Every     *)
(* derived quantity is a fixed-point integer whose scale is stated where   *)
(* it is defined.  Products are taken with MulDiv, whose intermediate      *)
(* values stay within 32 bits.  float('inf') is the integer Inf, nan the   *)
(* integer NaN.  A Python exception is a result of kind "raise".           *)
(***************************************************************************)
EXTENDS Integers, Sequences, FiniteSets, TLC

VARIABLES
    alg,        \* the entry point that was called
    pc,         \* position in that entry point's code
    clock,      \* wall-clock time, in ticks, since the call (time.time())
    req_Lm,     \* argument req_Lm (lb); gradients_opt increments its copy
    dim,        \* argument of the feasibility evaluators: [PR, Dm, Wm, D, DF]
    out,        \* what each evaluator returned for dim
    result,     \* what the entry point returned (or raised)
    init_dim,   \* argument init_dim of the random searches (<<>> is [])
    n_iter,     \* argument n_iter
    fitness,    \* argument fitness / conv_fitness, in thousandths
    i,          \* the loop variable i of the search loop
    curr_best_tire, \* random search: the current best design
    particles,  \* pso_opt: the particles, each with position, velocity,
                \* best_position and best_obj
    p,          \* pso_opt: the index in particles of the loop variable p
    global_best_position,
    global_best_obj,
    st,         \* the start time the loops measure the runtime from
    pop_size,   \* ga_opt: argument pop_size
    prob_mutate,    \* ga_opt: argument prob_mutate, in hundredths
    init_gene,  \* ga_opt: argument init_gene (<<>> is [])
    population, \* ga_opt: the individuals, each with chromosome and fitness
    new_generation,
    curr_best,
    counter,    \* the attempts of bayesOps_opt and of gradients_opt
    n_probed,   \* _bayesOps_opt: the points the optimizer has evaluated
    optimizer_max,  \* _bayesOps_opt: optimizer.max, as [params, target]
    caller,     \* the objects that outlive a call: the caller's required
                \* load, seed list and scopes, and the default lists [] of
                \* init_dim and init_gene
    self        \* the Tire object whose methods are called directly

evalVars == <<dim, out>>

rsVars == <<init_dim, curr_best_tire>>

psoVars == <<particles, p, global_best_position, global_best_obj>>

gaVars == <<pop_size, prob_mutate, init_gene, population, new_generation, curr_best>>

boVars == <<counter, n_probed, optimizer_max>>

vars == <<alg, pc, clock, req_Lm, result, n_iter, fitness, i, st,
          evalVars, rsVars, psoVars, gaVars, boVars, caller, self>>

\* the values of the argument speed_index (mph): none given, and a speed
\* above the 160 mph that inflation_pressure tests
SpeedIndexes == {0, 210}

\* the objects of the caller for a call with required load load, seed list
\* seed (<<>> when the argument is left out), dictionary scopes and speed
\* index speed_index; the
\* default lists are those of "init_dim=[]" in lines 47 and 138 of
\* randSearch.py and of "init_gene=[]" in line 124 of genAlg.py
CallerHolds(load, seed, scopes, speed_index) ==
    [req_Lm |-> load, seed |-> seed, scopes |-> scopes, speed_index |-> speed_index,
     defaults |-> [rs_discrete |-> <<>>, rs_continuous |-> <<>>, ga_opt |-> <<>>]]

\* what the steps of one entry point leave alone
notEval == <<rsVars, psoVars, gaVars, boVars, caller, self>>

notRs == <<evalVars, st, psoVars, gaVars, boVars, caller, self>>

notPso == <<evalVars, rsVars, gaVars, boVars, caller, self>>

notGa == <<evalVars, rsVars, psoVars, boVars, caller, self>>

notBo == <<evalVars, rsVars, psoVars, gaVars, caller, self>>

--------------------------------------------------------------------------
(* Fixed-point arithmetic *)

Inf == 2000000000

Min(a, b) == IF a <= b THEN a ELSE b

\* floor(a*b/c) for b >= 0 and c > 0, exact and within 32 bits as long as
\* c*b is: the quotient and the remainder of a by c are multiplied apart
MulDiv(a, b, c) == (a \div c) * b + ((a % c) * b) \div c

\* One step of Newton's iteration for the integer square root of n on every
\* guess of X: never below floor(sqrt(n)), and below the guess whenever the
\* guess is above it
NewtonStep(n, X) == {Min(x, (x + n \div x) \div 2) : x \in X}

Newton4(n, X) == NewtonStep(n, NewtonStep(n, NewtonStep(n, NewtonStep(n, X))))

\* floor(sqrt(n)) for 0 <= n < 2^31 (twenty steps from min(n, 46340) reach it)
Sqrt(n) ==
    IF n = 0 THEN 0
    ELSE CHOOSE r \in Newton4(n, Newton4(n, Newton4(n, Newton4(n, Newton4(n,
                          {Min(n, 46340)}))))) : TRUE

--------------------------------------------------------------------------
(* models.py: class Tire *)

NaN == 0 - Inf

\* float comparisons: any comparison with nan is False
FLt(a, b) == a # NaN /\ b # NaN /\ a < b

FGe(a, b) == a # NaN /\ b # NaN /\ a >= b

Raise(e) == [kind |-> "raise", exc |-> e]

\* Tire.__init__ with the keywords the searches pass (PR, Dm, Wm, D, DF, SI):
\* a missing (zero) D falls back to RD = 0, a missing DF to D + 2*FH = D,
\* and Lr = Dm / D divides by D.  np says that the keywords are numpy
\* floats, for which a division by zero yields inf; for Python floats it
\* raises.  Lr4 is 10^4 * Lr.
Tire(PR, Dm, Wm, D, DF, SI, np) ==
    LET D1  == IF D = 0 THEN 0 ELSE D
        DF1 == IF DF = 0 THEN D1 + 2 * 0 ELSE DF
    IN  IF D1 = 0 /\ ~np THEN Raise("ZeroDivisionError")
        ELSE [kind |-> "Tire", Pre |-> "", PR |-> PR, Dm |-> Dm, Wm |-> Wm,
              D |-> D1, DF |-> DF1, SI |-> SI,
              Lr4 |-> IF D1 = 0 THEN Inf ELSE (Dm * 10000) \div D1]

get_key_dim(t) == <<t.PR, t.Dm, t.Wm, t.D, t.DF>>

\* 10^4 * the degree-5 polynomial of ratio_of_ends_per_inch at Lr = L / 10^4
\* (coefficients to five or six figures)
RePoly4(L) ==
    LET L2 == MulDiv(L, L, 10000)
        L3 == MulDiv(L2, L, 10000)
        L4 == MulDiv(L3, L, 10000)
        L5 == MulDiv(L4, L, 10000)
    IN  0 - MulDiv(L5, 7651, 10000) \div 100
          + MulDiv(L4, 14362, 10000) \div 10
          - MulDiv(L3, 106683, 10000) \div 10
          + MulDiv(L2, 39519, 10000)
          - MulDiv(L, 74168, 10000)
          + 63261

\* 10^4 * Re with the polynomial followed past Lr = 5
ratio_of_ends_per_inch_Extrapolated(t) ==
    IF 15000 < t.Lr4 /\ t.Lr4 < 22000
    THEN 14750 - MulDiv(t.Lr4, 331, 1000)
    ELSE IF 22000 <= t.Lr4
    THEN RePoly4(t.Lr4)
    ELSE 14750 - MulDiv(t.Lr4, 331, 1000)

\* 10^4 * Re
ratio_of_ends_per_inch(t) ==
    IF 15000 < t.Lr4 /\ t.Lr4 < 22000
    THEN 14750 - MulDiv(t.Lr4, 331, 1000)
    ELSE IF 22000 <= t.Lr4 /\ t.Lr4 < 50000
    THEN RePoly4(t.Lr4)
    ELSE IF t.Lr4 <= 15000
    THEN 14750 - MulDiv(t.Lr4, 331, 1000)
    ELSE RePoly4(50000)

\* 1000 * Ad for deflection fraction b = b100 / 100; NaN when the square
\* root's argument is negative (np.sqrt returns nan)
ground_contact_area(t, b100) ==
    LET d200 == b100 * (t.Dm - t.DF)                           \* 200 * d
        arg  == (200 * t.Dm - d200) * (200 * t.Wm - d200)
    IN  IF arg < 0 THEN NaN
        ELSE MulDiv((77 * d200 * Sqrt(arg)) \div 100, 31416, 10000) \div 40

\* 10^6 * F0, the operating-factor polynomial in D
OperatingFactor6(D) ==
    0 - MulDiv(D ^ 5, 16231, 10000) \div 10
      + MulDiv(D ^ 4, 146306, 10000)
      - MulDiv(D ^ 3, 56075, 100)
      + MulDiv(D ^ 2, 1288401, 100)
      - 197904 * D
      + 2567982

\* 100 * P = (40 * Re * T0 * Ne) / (S * F0)
pressure_index(t) ==
    LET Re4  == ratio_of_ends_per_inch(t)
        Ne10 == 10 * t.PR - 4
        T010 == 44
        a4   == (t.Dm - t.D) * 2500
        Q4   == 25000 + (t.D * 10000) \div (2 * t.Dm)
        S4   == MulDiv(a4, Q4, 10000)
        F04  == OperatingFactor6(t.D) \div 100
        num4 == MulDiv(Re4, 40 * T010 * Ne10, 100)
        den4 == MulDiv(S4, F04, 10000)
    IN  IF den4 <= 0 THEN NaN ELSE MulDiv(num4, 100, den4)

\* 100 * Pc
load_supporting_capability(t) ==
    IF 2 * t.Wm < 11 THEN 100 * t.PR
    ELSE (1040 * t.PR * t.PR) \div (t.Wm * t.Wm)

\* x / 25 cut to a whole number instead of rounded
RoundTo25_Down(x100) == (x100 \div 2500) * 2500

\* np.round(x / 25) * 25 on x100 = 100 * x: rounds half to even
RoundTo25(x100) ==
    LET q == x100 \div 2500
        r == x100 % 2500
    IN  IF r > 1250 \/ (r = 1250 /\ q % 2 = 1) THEN (q + 1) * 2500 ELSE q * 2500

\* 100 * Lm
max_load_capacity(t, exact) ==
    LET Ad == ground_contact_area(t, 32)
        P  == pressure_index(t)
        Lm == IF Ad = NaN \/ P = NaN THEN NaN
              ELSE MulDiv(P + load_supporting_capability(t), Ad, 1000)
    IN  IF exact \/ Lm = NaN THEN Lm ELSE RoundTo25(Lm)

\* P + X * Pc + 3, times 100, for the uncorrected pressure P (times 100)
CorrectedPressure(P, Pc) ==
    P + MulDiv(IF P > 10000 THEN 5000 ELSE P - 5000, Pc, 10000) + 300

\* 100 * the inflation pressure with the 32 % deflection taken for every tire
inflation_pressure_Always32(t) ==
    CorrectedPressure(pressure_index(t), load_supporting_capability(t))

\* 100 * the indicator inflation pressure (psi)
inflation_pressure(t) ==
    IF t.Pre = "B" \/ t.Pre = "H" \/ (t.SI # 0 /\ t.SI <= 160)
    THEN CorrectedPressure(
             MulDiv(MulDiv(max_load_capacity(t, FALSE), 100, 35 + 45),
                    1000, ground_contact_area(t, 35))
                 - load_supporting_capability(t),
             load_supporting_capability(t))
    ELSE CorrectedPressure(pressure_index(t), load_supporting_capability(t))

\* P_abs * V * M_gas / R / T / 1000 in units of 10 mg (10^5 * kg), for P_abs
\* in units of 100 Pa and V in cm^3, with M_gas = 28.0134, R = 8.3145 and
\* T = 298.15
GasMass(P_abs, V) ==
    MulDiv(MulDiv(MulDiv(MulDiv(V, P_abs, 100), 28013, 1000), 10000, 83145),
           100, 29815)

\* 10^5 * the mass of the inflation medium (kg), with the default arguments
\* P_gas = 0.0, P_amb = 14.7; H2 is 2 * H, geo is 4 * Wm * H * (D + H),
\* 0.6895 is constants.psi / 10^4, 9.8696 is pi^2, 16.387 is inch^3 in cm^3
inflation_medium_mass(t) ==
    LET H2  == t.Dm - t.D
        geo == t.Wm * H2 * (2 * t.D + H2)
    IN  GasMass(MulDiv(inflation_pressure(t) + 1470, 6895, 10000),
                MulDiv(MulDiv(geo, 98696, 16000), 16387, 10000))

\* np.ceil(PR / 8)
Ceil8(PR) == (PR + 7) \div 8

\* 100 * the cord tension (N) of the Walter model with the default arguments
\* N = 1360, n_ply = ceil(PR/8), beta_c = 30, rho = 0.9, beta_s = 45; the
\* centrifugal term m_1 * Omega * (psi(rho) - psi(1)) has the factor
\* omega = SI * ... / r_c, which is 0 for the SI = 0 every search leaves,
\* and is added by Centrifugal.  IP is 100 * inflation_pressure().
WalterTension(IP, PR, Dm, D) ==
    LET rho_w4 == ((Dm + D) * 10000) \div (2 * Dm)
        shell4 == 10000 - MulDiv(rho_w4, rho_w4, 10000)        \* 1 - rho_w^2
    IN  MulDiv(
          MulDiv(
            (10 * MulDiv(MulDiv(MulDiv((IP * Dm * Dm) \div 4, shell4, 10000),
                                31416, 10000),                 \* pi
                         8660, 10000))                         \* cos(beta_c)
              \div (1360 * Ceil8(PR)),                         \* N * n_ply
            100, 595),                                         \* 1 - rho^2 sin^2
          44482, 10000)                                        \* lbf -> N

\* 100 * the part of the Walter tension (N) that comes from the rotation:
\* pi * IP * r_c^2 * m_1 * Omega * (psi(0.9) - psi(1)) / (N * n_ply * 0.595)
\* * lbf with Omega = r_c * omega^2 / IP and omega = 17.6 * SI / r_c, which is
\* 2.771e-5 * r_c * SI^2 / n_ply (psi(0.9) - psi(1) = 0.072963 at 30 degrees)
Centrifugal(SI, PR, Dm) ==
    MulDiv(Dm * SI * SI, 2771, 10000) \div (200 * Ceil8(PR))

cord_tension_walter(t) ==
    WalterTension(inflation_pressure(t), t.PR, t.Dm, t.D) + Centrifugal(t.SI, t.PR, t.Dm)

\* 100 * the cord tension (N) of the netting model with the default arguments
\* N = 1540, n_ply = ceil(PR/8), alpha = 30, phi = 90:
\* (Dm/2)^2 - (Dm/2 - (Dm - D)/4)^2 is (Dm - D) * (3 Dm + D) / 16, and
\* 1 / sin(30 degrees) is 2.  IP is 100 * inflation_pressure().
NettingTension(IP, PR, Dm, D) ==
    MulDiv((2 * MulDiv((IP * (Dm - D) * (3 * Dm + D)) \div 16, 31416, 10000))
               \div (1540 * Ceil8(PR)),
           44482, 10000)

cord_tension_netting(t) == NettingTension(inflation_pressure(t), t.PR, t.Dm, t.D)

\* is_mech_feasible with the defaults model = "walter", break_load = 338.0
is_mech_feasible(t) == cord_tension_walter(t) < 33800

--------------------------------------------------------------------------
(* The feasibility predicate and its copies *)

\* asp < k10/10 and asp > k10/10 for asp = (Dm - D)/2/Wm, Wm # 0
AspLt(Dm, Wm, D, k10) ==
    IF Wm > 0 THEN 10 * (Dm - D) < k10 * 2 * Wm ELSE 10 * (Dm - D) > k10 * 2 * Wm

AspGt(Dm, Wm, D, k10) ==
    IF Wm > 0 THEN 10 * (Dm - D) > k10 * 2 * Wm ELSE 10 * (Dm - D) < k10 * 2 * Wm

\* the ordering and aspect-ratio test shared by the four evaluators:
\* Dm <= DF or DF <= D or asp < 0.5 or asp > 1.  With Wm = 0 and numpy
\* floats asp is +-inf or nan, and one of the four disjuncts is true.
GeoRejected(Dm, Wm, D, DF) ==
    \/ Dm <= DF
    \/ DF <= D
    \/ Wm = 0
    \/ AspLt(Dm, Wm, D, 5)
    \/ AspGt(Dm, Wm, D, 10)

RetFalse == [kind |-> "False"]

\* is_geo_valid that also turns down a design of more than twice the load
is_geo_valid_Oversized(d, req) ==
    LET PR == d[1]
        Dm == d[2]
        Wm == d[3]
        D  == d[4]
        DF == d[5]
    IN  IF Wm = 0 THEN Raise("ZeroDivisionError")
        ELSE IF GeoRejected(Dm, Wm, D, DF) THEN RetFalse
        ELSE LET tire == Tire(PR, Dm, Wm, D, DF, 0, FALSE)
             IN  IF tire.kind = "raise" THEN tire
                 ELSE IF FLt(max_load_capacity(tire, TRUE), 100 * req) THEN RetFalse
                 ELSE IF FLt(200 * req, max_load_capacity(tire, TRUE)) THEN RetFalse
                 ELSE IF is_mech_feasible(tire) THEN tire
                 ELSE RetFalse

\* randSearch.is_geo_valid(dim, req_Lm); dim holds Python floats
is_geo_valid(d, req) ==
    LET PR == d[1]
        Dm == d[2]
        Wm == d[3]
        D  == d[4]
        DF == d[5]
    IN  IF Wm = 0 THEN Raise("ZeroDivisionError")
        ELSE IF GeoRejected(Dm, Wm, D, DF) THEN RetFalse
        ELSE LET tire == Tire(PR, Dm, Wm, D, DF, 0, FALSE)
             IN  IF tire.kind = "raise" THEN tire
                 ELSE IF FLt(max_load_capacity(tire, TRUE), 100 * req) THEN RetFalse
                 ELSE IF is_mech_feasible(tire) THEN tire
                 ELSE RetFalse

Float(v) == [kind |-> "float", val |-> v]

\* GA_Individual.cal_fitness on chromosome [PR, Dm, Wm, D, DF, req_Lm] of
\* Python floats: 10^5 * the mass, or Inf
cal_fitness(chromosome) ==
    IF chromosome[3] = 0 THEN Raise("ZeroDivisionError")
    ELSE IF GeoRejected(chromosome[2], chromosome[3], chromosome[4], chromosome[5])
    THEN Float(Inf)
    ELSE LET tire == Tire(chromosome[1], chromosome[2], chromosome[3],
                          chromosome[4], chromosome[5], 0, FALSE)
         IN  IF tire.kind = "raise" THEN tire
             ELSE IF FLt(max_load_capacity(tire, TRUE), 100 * chromosome[6]) THEN Float(Inf)
             ELSE IF ~is_mech_feasible(tire) THEN Float(Inf)
             ELSE Float(inflation_medium_mass(tire))

\* PSO_Particle.calc_obj on a position (a numpy array) and self.req_Lm
calc_obj(position, req) ==
    IF GeoRejected(position[2], position[3], position[4], position[5]) THEN Inf
    ELSE LET tire == Tire(position[1], position[2], position[3],
                          position[4], position[5], 0, TRUE)
         IN  IF FLt(max_load_capacity(tire, TRUE), 100 * req) THEN Inf
             ELSE IF ~is_mech_feasible(tire) THEN Inf
             ELSE inflation_medium_mass(tire)

\* the value -1e24 returned by objective_func for a rejected design
Penalty == -1000000000

\* _bayesOps_opt.objective_func(Dm, Wm, D, DF, PR) on numpy floats; the
\* load is the rounded one: max_load_capacity() with exact left False
objective_func(Dm, Wm, D, DF, PR, req) ==
    IF GeoRejected(Dm, Wm, D, DF) THEN Penalty
    ELSE LET tire == Tire(PR, Dm, Wm, D, DF, 0, TRUE)
         IN  IF FLt(max_load_capacity(tire, FALSE), 100 * req) THEN Penalty
             ELSE IF ~is_mech_feasible(tire) THEN Penalty
             ELSE 0 - inflation_medium_mass(tire)

--------------------------------------------------------------------------
(* The evaluators as functions: every 5-tuple of a bounded set, against     *)
(* every load of a bounded set                                              *)

\* designs around the databook tire 21x7.25-10 (PR 10, Dm 21, Wm 7, D 10,
\* DF 12), with zero widths and rim diameters, two large tires, and two
\* 5-tuples of negative diameters that are in order (D < DF < Dm) with an
\* aspect ratio of 0.5 and of 1
PredDims ==
    {<<PR, Dm, Wm, D, DF>> : PR \in {8, 10}, Dm \in {18, 21}, Wm \in {0, 4, 6, 7, 12},
                             D \in {0, 8, 10}, DF \in {1, 10, 12, 21}}
    \cup {<<8, 60, 20, 36, 40>>, <<24, 50, 14, 32, 40>>}
    \cup {<<8, -1, 2, -3, -2>>, <<8, -1, 1, -3, -2>>}

PredLoads == {1000, 3023, 5000}

NotCalled == [kind |-> "not called"]

\* the variables of the random searches, for the other entry points
RsUnused == init_dim = <<>> /\ curr_best_tire = NotCalled

\* the variables of pso_opt, for the other entry points
PsoUnused ==
    particles = <<>> /\ p = 0 /\ global_best_position = <<>> /\ global_best_obj = 0

\* the variables of ga_opt, for the other entry points
GaUnused ==
    /\ pop_size = 0 /\ prob_mutate = 0 /\ init_gene = <<>>
    /\ population = <<>> /\ new_generation = <<>> /\ curr_best = 0

\* the variables of bayesOps_opt, for the other entry points
BoUnused == counter = 0 /\ n_probed = 0 /\ optimizer_max = <<>>

\* the variables of the evaluators, for the other entry points
EvalUnused == dim = <<>> /\ out = NotCalled

PredInit ==
    /\ alg = "evaluators"
    /\ pc = "call"
    /\ clock = 0
    /\ req_Lm \in PredLoads
    /\ dim \in PredDims
    /\ out = [rs |-> NotCalled, ga |-> NotCalled, pso |-> NotCalled, bayes |-> NotCalled]
    /\ result = NotCalled
    /\ n_iter = 0 /\ fitness = 0 /\ i = 0 /\ st = 0
    /\ RsUnused /\ PsoUnused /\ GaUnused /\ BoUnused
    /\ caller = CallerHolds(req_Lm, <<>>, <<>>, 0)
    /\ self = NotCalled

CallIsGeoValid ==
    /\ alg = "evaluators"
    /\ out.rs = NotCalled
    /\ out' = [out EXCEPT !.rs = is_geo_valid(dim, req_Lm)]
    /\ UNCHANGED <<alg, pc, clock, req_Lm, dim, result, n_iter, fitness, i, st, notEval>>

CallCalFitness ==
    /\ alg = "evaluators"
    /\ out.ga = NotCalled
    /\ out' = [out EXCEPT !.ga = cal_fitness(dim \o <<req_Lm>>)]
    /\ UNCHANGED <<alg, pc, clock, req_Lm, dim, result, n_iter, fitness, i, st, notEval>>

CallCalcObj ==
    /\ alg = "evaluators"
    /\ out.pso = NotCalled
    /\ out' = [out EXCEPT !.pso = Float(calc_obj(dim, req_Lm))]
    /\ UNCHANGED <<alg, pc, clock, req_Lm, dim, result, n_iter, fitness, i, st, notEval>>

CallObjectiveFunc ==
    /\ alg = "evaluators"
    /\ out.bayes = NotCalled
    /\ out' = [out EXCEPT !.bayes =
                   Float(objective_func(dim[2], dim[3], dim[4], dim[5], dim[1], req_Lm))]
    /\ UNCHANGED <<alg, pc, clock, req_Lm, dim, result, n_iter, fitness, i, st, notEval>>

PredNext == CallIsGeoValid \/ CallCalFitness \/ CallCalcObj \/ CallObjectiveFunc

SpecPred == PredInit /\ [][PredNext]_vars

--------------------------------------------------------------------------
(* Properties of the evaluators, under SpecPred *)

AllCalled == \A f \in {"rs", "ga", "pso", "bayes"} : out[f] # NotCalled

\* what each strategy takes for "feasible"
RsFeasible == out.rs.kind = "Tire"

GaFeasible == out.ga.kind = "float" /\ out.ga.val # Inf

PsoFeasible == out.pso.kind = "float" /\ out.pso.val # Inf

BayesFeasible == out.bayes.kind = "float" /\ out.bayes.val # Penalty

\* C4: for every design vector and every required load, is_geo_valid
\* returns a Tire iff cal_fitness is finite iff calc_obj is finite iff
\* objective_func returns something other than the penalty.
C4_SameFeasibility ==
    (alg = "evaluators" /\ AllCalled) =>
        /\ RsFeasible <=> GaFeasible
        /\ RsFeasible <=> PsoFeasible
        /\ RsFeasible <=> BayesFeasible

\* the five conditions of the feasibility predicate, read off the design
\* itself: Dm > DF, DF > D, 0.5 <= (Dm - D)/(2 Wm) <= 1, exact load >=
\* req_Lm, mechanically feasible
DimConditions(d, req) ==
    /\ d[2] > d[5]
    /\ d[5] > d[4]
    /\ d[3] # 0
    /\ ~AspLt(d[2], d[3], d[4], 5)
    /\ ~AspGt(d[2], d[3], d[4], 10)
    /\ FGe(max_load_capacity(Tire(d[1], d[2], d[3], d[4], d[5], 0, TRUE), TRUE), 100 * req)
    /\ is_mech_feasible(Tire(d[1], d[2], d[3], d[4], d[5], 0, TRUE))

\* C5: is_geo_valid(dim, req_Lm) returns a Tire built from dim exactly when
\* the five conditions hold, and returns False otherwise.
C5_TireExactlyWhen ==
    (alg = "evaluators" /\ out.rs # NotCalled) =>
        IF DimConditions(dim, req_Lm)
        THEN out.rs.kind = "Tire" /\ get_key_dim(out.rs) = dim
        ELSE out.rs = RetFalse

\* C6: for every input 5-tuple is_geo_valid returns a Tire or False; no
\* division by zero or square root of a negative number escapes it.
C6_NoEscape ==
    (alg = "evaluators" /\ out.rs # NotCalled) => out.rs.kind \in {"Tire", "False"}

\* the Tire on which is_geo_valid calls the oracle (line 38), if it gets
\* that far: the ordering and aspect-ratio test of line 35 let dim through
\* and the constructor did not raise
OracleArgument ==
    IF dim[3] = 0 \/ GeoRejected(dim[2], dim[3], dim[4], dim[5]) THEN NotCalled
    ELSE Tire(dim[1], dim[2], dim[3], dim[4], dim[5], 0, FALSE)

\* C20: is_geo_valid rejects, before it calls the oracle, every design for
\* which ground_contact_area is undefined: whenever a 5-tuple passes the
\* ordering test (D < DF < Dm) and the aspect-ratio test, Wm is positive
\* and the argument (Dm - d) * (Wm - d) of the square root is not
\* negative, so that the area is a number.
C20_SqrtDefined ==
    (alg = "evaluators" /\ out.rs # NotCalled /\ OracleArgument.kind = "Tire") =>
        /\ OracleArgument.Wm > 0
        /\ ground_contact_area(OracleArgument, 32) # NaN

\* the masses (10^5 * kg) of the designs of the bounded domain that
\* is_geo_valid accepts for the load L
FeasibleMasses(L) ==
    {inflation_medium_mass(t) :
        t \in {r \in {is_geo_valid(d, L) : d \in PredDims} : r.kind = "Tire"}}

\* C24: feasibility is monotone in the required load: a design that
\* is_geo_valid accepts for a load is accepted for every lower load, so the
\* least feasible mass of the domain for the lower load is not above the
\* mass of any design feasible for the higher one.
C24_MonotoneInLoad ==
    (alg = "evaluators" /\ out.rs # NotCalled /\ out.rs.kind = "Tire") =>
        \A L1 \in {L \in PredLoads : L <= req_Lm} :
            /\ is_geo_valid(dim, L1) = out.rs
            /\ \E m \in FeasibleMasses(L1) : m <= inflation_medium_mass(out.rs)

\* is_geo_valid accepted a design of positive size for the highest load
C24_AcceptedForHighest ==
    /\ alg = "evaluators"
    /\ out.rs # NotCalled /\ out.rs.kind = "Tire"
    /\ dim[4] > 0
    /\ \A L \in PredLoads : L <= req_Lm
    /\ \E L \in PredLoads : L < req_Lm

--------------------------------------------------------------------------
(* optimizations/randSearch.py: rs_discrete and rs_continuous *)

design_var == <<"PR", "Dm", "Wm", "D", "DF">>

\* scopes of rs_discrete: for each variable the array of its values
ScopesD == [PR |-> <<8, 10>>, Dm |-> <<18, 21>>, Wm |-> <<5, 6, 7>>,
            D |-> <<8, 10>>, DF |-> <<12, 14>>]

\* scopes of the continuous searches: for each variable <<min, max>>
ScopesC == [PR |-> <<8, 10>>, Dm |-> <<18, 20>>, Wm |-> <<5, 7>>,
            D |-> <<8, 10>>, DF |-> <<12, 14>>]

\* the values np.random.rand() takes in the model, as fractions n/2 of 1
RandHalves == {0, 1}

\* np.random.rand() * (scope[1] - scope[0]) + scope[0] for rand() = r/2
RandIn(scope, r) == scope[1] + (r * (scope[2] - scope[1])) \div 2

\* the time between two actions: none, or one tick
MaxClock == 2

Ticks == {t \in {clock, clock + 1} : t <= MaxClock}

\* time.time() - start_time >= runtime, for the runtime of the model
Runtime == 1

RetNone == [kind |-> "None"]

\* the designs the caller may pass as init_dim: none, ones on the grid of
\* both searches, one that violates the ordering DF > D, and one whose PR
\* and D are between the values of the arrays of rs_discrete
RsInitDims == {<<>>, <<8, 18, 6, 8, 12>>, <<10, 18, 6, 8, 12>>, <<8, 18, 6, 8, 8>>,
               <<9, 18, 6, 9, 12>>}

RsLoads == {3000, 9000}

RsInit ==
    /\ alg \in {"rs_discrete", "rs_continuous"}
    /\ pc = "start"
    /\ clock = 0
    /\ req_Lm \in RsLoads
    /\ init_dim \in RsInitDims
    /\ n_iter \in 0 .. 2
    /\ fitness \in {1, 150}
    /\ i = 0
    /\ curr_best_tire = NotCalled
    /\ result = NotCalled
    /\ st = 0
    /\ EvalUnused /\ PsoUnused /\ GaUnused /\ BoUnused
    /\ \E speed_index \in IF n_iter <= 1 THEN SpeedIndexes ELSE {0} :
          caller = CallerHolds(req_Lm, init_dim,
                               IF alg = "rs_discrete" THEN ScopesD ELSE ScopesC,
                               speed_index)
    /\ self = NotCalled

IsRs == alg \in {"rs_discrete", "rs_continuous"}

\* lines 73-83 and 164-174: the caller's init_dim is tried first
RsLocateInitial ==
    /\ IsRs /\ pc = "start"
    /\ clock' \in Ticks
    /\ IF init_dim # <<>>
       THEN LET init_tire == is_geo_valid(init_dim, req_Lm)
            IN  IF init_tire.kind = "raise"
                THEN pc' = "raised" /\ result' = init_tire /\ UNCHANGED curr_best_tire
                ELSE IF init_tire.kind = "False"
                THEN pc' = "random_init" /\ UNCHANGED <<result, curr_best_tire>>
                ELSE pc' = "explore" /\ curr_best_tire' = init_tire /\ UNCHANGED result
       ELSE pc' = "random_init" /\ UNCHANGED <<result, curr_best_tire>>
    /\ UNCHANGED <<alg, req_Lm, init_dim, n_iter, fitness, i, notRs>>

\* the random design of one pass of the while loop
RandomDims ==
    IF alg = "rs_discrete"
    THEN {<<ScopesD.PR[a], ScopesD.Dm[b], ScopesD.Wm[c], ScopesD.D[d], ScopesD.DF[e]>> :
              a \in 1 .. Len(ScopesD.PR), b \in 1 .. Len(ScopesD.Dm),
              c \in 1 .. Len(ScopesD.Wm), d \in 1 .. Len(ScopesD.D),
              e \in 1 .. Len(ScopesD.DF)}
    ELSE {<<RandIn(ScopesC.PR, a), RandIn(ScopesC.Dm, b), RandIn(ScopesC.Wm, c),
            RandIn(ScopesC.D, d), RandIn(ScopesC.DF, e)>> :
              a \in RandHalves, b \in RandHalves, c \in RandHalves,
              d \in RandHalves, e \in RandHalves}

\* the loop of lines 84-94 without the test of line 90: the first random
\* design is the start, whatever the predicate says of it
RsRandomInit_Unchecked ==
    /\ IsRs /\ pc = "random_init"
    /\ \E geo_dim \in RandomDims, now \in Ticks :
         /\ clock' = now
         /\ pc' = "explore"
         /\ curr_best_tire' = Tire(geo_dim[1], geo_dim[2], geo_dim[3], geo_dim[4],
                                   geo_dim[5], 0, TRUE)
    /\ UNCHANGED <<alg, req_Lm, init_dim, n_iter, fitness, i, result, notRs>>

\* lines 84-94 and 175-185: one pass of the while True loop
RsRandomInit ==
    /\ IsRs /\ pc = "random_init"
    /\ \E geo_dim \in RandomDims, now \in Ticks :
         LET init_tire == is_geo_valid(geo_dim, req_Lm)
         IN  /\ clock' = now
             /\ IF init_tire.kind = "raise"
                THEN pc' = "raised" /\ result' = init_tire /\ UNCHANGED curr_best_tire
                ELSE IF init_tire.kind = "Tire"
                THEN pc' = "explore" /\ curr_best_tire' = init_tire /\ UNCHANGED result
                ELSE IF now >= Runtime
                THEN pc' = "done" /\ result' = RetNone /\ UNCHANGED curr_best_tire
                ELSE UNCHANGED <<pc, result, curr_best_tire>>
    /\ UNCHANGED <<alg, req_Lm, init_dim, n_iter, fitness, i, notRs>>

\* argument step_size: one array index (discrete), one inch (continuous)
step_size == 1

\* move_options[k], k = 0 .. 242, in the order of itertools.product
NumMoves == 3 ^ 5

Move(k) == [ind \in 1 .. 5 |-> ((k \div (3 ^ (5 - ind))) % 3) - 1]

HasIndex(arr, v) == \E j \in 1 .. Len(arr) : arr[j] = v

\* np.where(arr == v)[0][0], as an index from 1
IndexOf(arr, v) == CHOOSE j \in 1 .. Len(arr) :
                       arr[j] = v /\ \A m \in 1 .. (j - 1) : arr[m] # v

\* lines 107-114 and 198-204: what the move does to variable ind
MoveStatus(curr_best_dim, k, ind) ==
    IF alg = "rs_discrete"
    THEN IF ~HasIndex(ScopesD[design_var[ind]], curr_best_dim[ind])
         THEN "IndexError"
         ELSE IF IndexOf(ScopesD[design_var[ind]], curr_best_dim[ind])
                     + Move(k)[ind] * step_size
                   \in 1 .. Len(ScopesD[design_var[ind]])
         THEN "ok" ELSE "out"
    ELSE IF /\ ScopesC[design_var[ind]][1] <= curr_best_dim[ind] + Move(k)[ind] * step_size
            /\ curr_best_dim[ind] + Move(k)[ind] * step_size < ScopesC[design_var[ind]][2]
         THEN "ok" ELSE "out"

TempDim(curr_best_dim, k) ==
    [ind \in 1 .. 5 |->
        IF alg = "rs_discrete"
        THEN ScopesD[design_var[ind]][IndexOf(ScopesD[design_var[ind]], curr_best_dim[ind])
                                         + Move(k)[ind] * step_size]
        ELSE curr_best_dim[ind] + Move(k)[ind] * step_size]

\* lines 116-119 and 206-209
BestOf_AnyFeasible(temp_tire, iter_best_tire) ==
    IF temp_tire.kind = "raise" THEN temp_tire
    ELSE IF temp_tire.kind = "Tire" THEN temp_tire
    ELSE iter_best_tire

BestOf(temp_tire, iter_best_tire) ==
    IF temp_tire.kind = "raise" THEN temp_tire
    ELSE IF /\ temp_tire.kind = "Tire"
            /\ inflation_medium_mass(temp_tire) < inflation_medium_mass(iter_best_tire)
         THEN temp_tire
         ELSE iter_best_tire

\* lines 104-119 and 195-209: the body of "for move in move_options"
TryMove(iter_best_tire, curr_best_dim, k, req) ==
    IF iter_best_tire.kind = "raise" THEN iter_best_tire
    ELSE IF \A ind \in 1 .. 5 : MoveStatus(curr_best_dim, k, ind) = "ok"
    THEN CHOOSE r \in {BestOf(temp_tire, iter_best_tire) :
                          temp_tire \in {is_geo_valid(TempDim(curr_best_dim, k), req)}} : TRUE
    ELSE IF MoveStatus(curr_best_dim, k,
                       CHOOSE ind \in 1 .. 5 :
                           /\ MoveStatus(curr_best_dim, k, ind) # "ok"
                           /\ \A m \in 1 .. (ind - 1) : MoveStatus(curr_best_dim, k, m) = "ok")
              = "IndexError"
    THEN Raise("IndexError")
    ELSE iter_best_tire

\* lines 103-119 and 194-209: the loop over move_options, as the nested
\* loops of itertools.product: the 3 ^ n moves from move k on, which
\* differ in the last n variables
RECURSIVE Hypersphere(_, _, _, _, _)
Hypersphere(iter_best_tire, curr_best_dim, k, n, req) ==
    IF n = 0 THEN TryMove(iter_best_tire, curr_best_dim, k, req)
    ELSE CHOOSE r \in
           {Hypersphere(b2, curr_best_dim, k + 2 * 3 ^ (n - 1), n - 1, req) :
              b2 \in {Hypersphere(b1, curr_best_dim, k + 3 ^ (n - 1), n - 1, req) :
                b1 \in {Hypersphere(iter_best_tire, curr_best_dim, k, n - 1, req)}}} : TRUE

\* the fitness criterion switched off: no improvement counts as converged
Converged_Never(curr, iter) == FALSE

\* lines 125-127 and 215-217: the relative improvement is at most fitness
Converged(curr, iter) ==
    (inflation_medium_mass(curr) - inflation_medium_mass(iter)) * 1000
        <= fitness * inflation_medium_mass(curr)

\* lines 99-131 and 190-221: one pass of "for i in range(n_iter)"
RsExplore ==
    /\ IsRs /\ pc = "explore" /\ i < n_iter
    /\ \E iter_best_tire \in {Hypersphere(curr_best_tire, get_key_dim(curr_best_tire),
                                          0, 5, req_Lm)},
          now \in Ticks :
         /\ clock' = now
         /\ IF iter_best_tire.kind = "raise"
            THEN pc' = "raised" /\ result' = iter_best_tire /\ UNCHANGED <<i, curr_best_tire>>
            ELSE IF iter_best_tire = curr_best_tire
            THEN pc' = "done" /\ result' = curr_best_tire /\ UNCHANGED <<i, curr_best_tire>>
            ELSE IF Converged(curr_best_tire, iter_best_tire) \/ now >= Runtime
            THEN pc' = "done" /\ result' = iter_best_tire /\ UNCHANGED <<i, curr_best_tire>>
            ELSE /\ curr_best_tire' = iter_best_tire
                 /\ i' = i + 1
                 /\ UNCHANGED <<pc, result>>
    /\ UNCHANGED <<alg, req_Lm, init_dim, n_iter, fitness, notRs>>

\* lines 133-134 and 223-224: the loop ran out; the print reads i, which
\* no pass of the loop has bound when n_iter is 0
RsLoopEnd ==
    /\ IsRs /\ pc = "explore" /\ i >= n_iter
    /\ clock' \in Ticks
    /\ IF n_iter = 0
       THEN pc' = "raised" /\ result' = Raise("UnboundLocalError")
       ELSE pc' = "done" /\ result' = curr_best_tire
    /\ UNCHANGED <<alg, req_Lm, init_dim, n_iter, fitness, i, curr_best_tire, notRs>>

RsNext == RsLocateInitial \/ RsRandomInit \/ RsExplore \/ RsLoopEnd

SpecRS == RsInit /\ [][RsNext]_vars

--------------------------------------------------------------------------
(* Properties of the random searches, under SpecRS *)

Accepted(tire, req) ==
    tire.kind = "Tire" /\ is_geo_valid(get_key_dim(tire), req) = tire

\* the search is in its Explore phase, or has left it with a result
ExploreBegun == curr_best_tire # NotCalled

\* Explore starts, and goes on, from a design the predicate accepts; the
\* start is init_dim when the predicate accepts init_dim
C10_FeasibleStart ==
    (IsRs /\ ExploreBegun) =>
        /\ Accepted(curr_best_tire, req_Lm)
        /\ (i = 0 /\ init_dim # <<>> /\ is_geo_valid(init_dim, req_Lm).kind = "Tire")
               => get_key_dim(curr_best_tire) = init_dim

\* None is returned only by the random-start loop, with the budget spent
C10_NoneOnlyBeforeStart ==
    (IsRs /\ result = RetNone) => (~ExploreBegun /\ clock >= Runtime)

\* a pass of the random-start loop that finds no feasible design with the
\* budget spent does not go on to another pass; and init_dim is given up
\* only when the predicate rejects it
C10_Step ==
    /\ (pc = "random_init" /\ pc' = "random_init") => clock' < Runtime
    /\ (pc = "start" /\ pc' = "random_init") =>
           (init_dim = <<>> \/ is_geo_valid(init_dim, req_Lm).kind = "False")
    /\ (ExploreBegun /\ result' # result) => result' # RetNone

\* C10: both random searches enter Explore only from a design accepted by
\* the feasibility predicate (init_dim when it is feasible, else a random
\* design that is); they return None exactly when the runtime elapses before
\* a feasible start is found, and never once Explore has begun.
C10_ExploreFromFeasible ==
    /\ [](C10_FeasibleStart /\ C10_NoneOnlyBeforeStart)
    /\ [][IsRs => C10_Step]_vars

\* Explore began from a random design after init_dim was rejected
C10_RandomStartReached ==
    IsRs /\ pc = "explore" /\ i = 0 /\ init_dim # <<>>
         /\ get_key_dim(curr_best_tire) # init_dim

\* a pass of the Explore loop is about to run
ExplorePass == IsRs /\ pc = "explore" /\ i < n_iter

\* iter_best_tire at the end of the pass that has just run: the design
\* returned, or the one adopted as the current best
IterBestAfter == IF pc' = "done" THEN result' ELSE curr_best_tire'

\* the moves whose five coordinates stay in scope
InScopeMoves(curr_best_dim) ==
    {k \in 0 .. (NumMoves - 1) :
        \A ind \in 1 .. 5 : MoveStatus(curr_best_dim, k, ind) = "ok"}

\* <<k, mass, tire>> for the feasible in-scope neighbours of lower mass
\* than curr
LighterNeighbours(curr, req) ==
    {c \in {<<k, inflation_medium_mass(t), t>> :
               <<k, t>> \in {m \in {<<k, is_geo_valid(TempDim(get_key_dim(curr), k), req)>> :
                                      k \in InScopeMoves(get_key_dim(curr))} :
                                 m[2].kind = "Tire"}} :
        c[2] < inflation_medium_mass(curr)}

\* the lightest of them, the first in the order of the moves on ties
FirstLightest(better) ==
    (CHOOSE c \in better :
        \A e \in better : c[2] < e[2] \/ (c[2] = e[2] /\ c[1] <= e[1]))[3]

\* C11: a pass of the Explore loop of rs_discrete / rs_continuous looks at
\* all 3^5 moves, evaluates a move exactly when each of its coordinates
\* stays in scope, and ends with iter_best_tire the design of least mass
\* among the current best and its feasible in-scope neighbours (the current
\* best, then the first move in enumeration order, on ties).
C11_IterBestIsMinimum ==
    [][ExplorePass =>
          /\ pc' # "raised"
          /\ \E better \in {LighterNeighbours(curr_best_tire, req_Lm)} :
                IterBestAfter = IF better = {} THEN curr_best_tire
                                ELSE FirstLightest(better)]_vars

\* (m_curr - m_new) / m_curr <= fitness, fitness in thousandths
WithinTolerance(m_curr, m_new) == (m_curr - m_new) * 1000 <= fitness * m_curr

\* the three outcomes of a pass as the claim states them: the third has
\* the new point adopted whenever the improvement exceeds the tolerance
C12_Outcome(better) ==
    IF better = {}
    THEN pc' = "done" /\ result' = curr_best_tire
    ELSE IF WithinTolerance(inflation_medium_mass(curr_best_tire),
                            inflation_medium_mass(FirstLightest(better)))
    THEN pc' = "done"
    ELSE pc' = "explore" /\ curr_best_tire' = FirstLightest(better)

\* C12 as stated: after a pass of Explore the search returns the current
\* best when no feasible neighbour is lighter, terminates when the relative
\* mass decrease is at most the tolerance, and otherwise adopts the new
\* point and goes on.
C12_AcceptOrTerminate ==
    [][(ExplorePass /\ pc' # "raised") =>
          \E better \in {LighterNeighbours(curr_best_tire, req_Lm)} :
              C12_Outcome(better)]_vars

\* the outcomes with the runtime test of lines 127 and 217
C12_OutcomeWithRuntime(better) ==
    IF better = {}
    THEN pc' = "done" /\ result' = curr_best_tire
    ELSE IF \/ WithinTolerance(inflation_medium_mass(curr_best_tire),
                               inflation_medium_mass(FirstLightest(better)))
            \/ clock' >= Runtime
    THEN pc' = "done" /\ result' = FirstLightest(better)
    ELSE /\ pc' = "explore" /\ curr_best_tire' = FirstLightest(better)
         /\ i' = i + 1 /\ result' = result

\* C12, amended: after a pass of Explore the search returns the current
\* best when no feasible neighbour is lighter; otherwise it returns the new
\* point when the relative mass decrease is at most the tolerance or the
\* runtime has elapsed; otherwise it adopts the new point and goes on to
\* the next iteration.
C12_AcceptOrTerminate_Amended ==
    [][(ExplorePass /\ pc' # "raised") =>
          \E better \in {LighterNeighbours(curr_best_tire, req_Lm)} :
              C12_OutcomeWithRuntime(better)]_vars

\* a search that stopped on the runtime with an improvement above the
\* tolerance
C12_StoppedOnRuntime ==
    /\ IsRs /\ pc = "done" /\ ExploreBegun /\ result # curr_best_tire
    /\ clock >= Runtime
    /\ ~WithinTolerance(inflation_medium_mass(curr_best_tire),
                        inflation_medium_mass(result))

\* C13: for every n_iter >= 0, 0 included, a random search that has a
\* feasible start runs at most n_iter passes of Explore, and when the cap is
\* reached it returns the current best design as a normal result.
C13_CapReturnsBest ==
    /\ []((IsRs /\ ExploreBegun) => i <= n_iter)
    /\ [][(IsRs /\ pc = "explore" /\ i >= n_iter) =>
             (pc' = "done" /\ result' = curr_best_tire)]_vars

\* every coordinate of the design is a value of its variable's array
OnScopeArrays(d) ==
    \A ind \in 1 .. 5 : HasIndex(ScopesD[design_var[ind]], d[ind])

\* C29: in rs_discrete every coordinate of every design held as current
\* best is an element of that variable's scope array, so the index lookup
\* at the start of each Explore step is defined and raises no IndexError,
\* also when the search starts from a feasible init_dim of the caller.
C29_LookupDefined ==
    alg = "rs_discrete" =>
        /\ result # Raise("IndexError")
        /\ pc = "explore" => OnScopeArrays(get_key_dim(curr_best_tire))

\* one step of a random search that has a current best: a design it adopts
\* is feasible and strictly lighter than the one it replaces, and a design
\* it returns is feasible and not heavier than the current best
C26_Step ==
    /\ curr_best_tire' # curr_best_tire =>
          /\ Accepted(curr_best_tire', req_Lm)
          /\ inflation_medium_mass(curr_best_tire') < inflation_medium_mass(curr_best_tire)
    /\ (result' # result /\ result'.kind # "raise") =>
          /\ Accepted(result', req_Lm)
          /\ inflation_medium_mass(result') <= inflation_medium_mass(curr_best_tire)

\* the design returned by a search that started from a feasible init_dim
\* is not heavier than init_dim
C26_NotAboveSeed ==
    (/\ IsRs /\ pc = "done" /\ result.kind = "Tire"
     /\ init_dim # <<>> /\ is_geo_valid(init_dim, req_Lm).kind = "Tire") =>
        inflation_medium_mass(result)
            <= inflation_medium_mass(is_geo_valid(init_dim, req_Lm))

\* C26: in rs_discrete and rs_continuous the mass of the current best
\* strictly decreases whenever a new point is adopted, the current best is
\* feasible at every step, and the returned design is not heavier than the
\* feasible design the search started from.
C26_MassDecreases ==
    /\ []((IsRs /\ ExploreBegun) => Accepted(curr_best_tire, req_Lm))
    /\ []C26_NotAboveSeed
    /\ [][(IsRs /\ ExploreBegun) => C26_Step]_vars

\* a search that started from a feasible init_dim has adopted a lighter
\* design and gone on to another pass
C26_Adopted ==
    /\ IsRs /\ pc = "explore" /\ i > 0
    /\ init_dim # <<>>
    /\ get_key_dim(curr_best_tire) # init_dim
    /\ inflation_medium_mass(curr_best_tire)
           < inflation_medium_mass(is_geo_valid(init_dim, req_Lm))

--------------------------------------------------------------------------
(* optimizations/pso.py: pso_opt *)

\* arguments n_particles, c1, c2 and w of pso_opt
n_particles == 2

c1 == 2

c2 == 2

w == 1

\* PSO_Particle.__init__ for the random position pos; of the random
\* velocity np.random.rand(5) the model has the draw 0 of every component
PSO_Particle(pos, req) ==
    [position |-> pos, velocity |-> <<0, 0, 0, 0, 0>>,
     best_position |-> pos, best_obj |-> calc_obj(pos, req)]

PsoLoads == {3000, 9000}

PsoInit ==
    /\ alg = "pso_opt"
    /\ pc = "init"
    /\ clock = 0
    /\ req_Lm \in PsoLoads
    /\ n_iter \in 0 .. 3
    /\ fitness \in {1, 150}
    /\ i = 0
    /\ st = 0
    /\ result = NotCalled
    /\ particles = <<>> /\ p = 1
    /\ global_best_position = <<>> /\ global_best_obj = 0
    /\ EvalUnused /\ RsUnused /\ GaUnused /\ BoUnused
    /\ \E speed_index \in IF n_iter <= 1 THEN SpeedIndexes ELSE {0} :
          caller = CallerHolds(req_Lm, <<>>, ScopesC, speed_index)
    /\ self = NotCalled

\* np.argmin: the first index of a least best_obj
ArgMin(ps) == CHOOSE j \in 1 .. Len(ps) :
                  /\ \A k \in 1 .. Len(ps) : ps[j].best_obj <= ps[k].best_obj
                  /\ \A k \in 1 .. (j - 1) : ps[k].best_obj > ps[j].best_obj

\* lines 117-130: one pass of the while True loop that creates a particle;
\* the pass that completes the swarm goes on to lines 126-130
PsoCreateParticle ==
    /\ alg = "pso_opt" /\ pc = "init"
    /\ \E pos \in RandomDims, now \in Ticks :
         \E q \in {PSO_Particle(pos, req_Lm)} :
           /\ clock' = now
           /\ IF q.best_obj < Inf
              THEN /\ particles' = Append(particles, q)
                   /\ IF Len(particles) + 1 = n_particles
                      THEN /\ global_best_position' = particles'[ArgMin(particles')].position
                           /\ global_best_obj' = particles'[ArgMin(particles')].best_obj
                           /\ st' = now
                           /\ pc' = "loop"
                      ELSE UNCHANGED <<global_best_position, global_best_obj, st, pc>>
              ELSE UNCHANGED <<particles, global_best_position, global_best_obj, st, pc>>
    /\ UNCHANGED <<alg, req_Lm, result, n_iter, fitness, i, p, notPso>>

\* PSO_Particle.update_position for the draws r1/2 and r2/2 of
\* np.random.rand(): the particle after it
update_position(q, r1, r2, gbest_pos, req) ==
    LET velocity == [k \in 1 .. 5 |->
                        w * q.velocity[k]
                        + (c1 * r1 * (q.best_position[k] - q.position[k])) \div 2
                        + (c2 * r2 * (gbest_pos[k] - q.position[k])) \div 2]
        position == [k \in 1 .. 5 |-> q.position[k] + velocity[k]]
    IN  CHOOSE r \in
          {IF new_obj <= q.best_obj
           THEN [position |-> position, velocity |-> velocity,
                 best_position |-> position, best_obj |-> new_obj, new_obj |-> new_obj]
           ELSE [position |-> position, velocity |-> velocity,
                 best_position |-> q.best_position, best_obj |-> q.best_obj,
                 new_obj |-> new_obj] :
             new_obj \in {calc_obj(position, req)}} : TRUE

\* the particle as the swarm keeps it
Kept(u) == [position |-> u.position, velocity |-> u.velocity,
            best_position |-> u.best_position, best_obj |-> u.best_obj]

\* the design built with the speed index of the call
PositionTire_AtSpeed(position) ==
    Tire(position[1], position[2], position[3], position[4], position[5],
         caller.speed_index, TRUE)

\* Tire(PR=position[0], ..., DF=position[4]) of lines 139-142, 148-151, 155-158
PositionTire(position) ==
    Tire(position[1], position[2], position[3], position[4], position[5], 0, TRUE)

\* lines 136: (global_best_obj - pbest) / global_best_obj <= conv_fitness
PsoConverged(pbest) ==
    (global_best_obj - pbest) * 1000 <= fitness * global_best_obj

\* the body of "for p in particles" without lines 143-144: the global best
\* stays what it was when the swarm was created
PsoUpdateParticle_StaleBest ==
    /\ alg = "pso_opt" /\ pc = "loop" /\ i < n_iter
    /\ \E r1 \in RandHalves, r2 \in RandHalves, now \in Ticks :
         \E u \in {update_position(particles[p], r1, r2, global_best_position, req_Lm)} :
           /\ clock' = now
           /\ particles' = [particles EXCEPT ![p] = Kept(u)]
           /\ UNCHANGED <<global_best_position, global_best_obj>>
           /\ IF (u.new_obj < global_best_obj /\ PsoConverged(u.new_obj)) \/ now - st >= Runtime
              THEN pc' = "done" /\ result' = PositionTire(u.position) /\ UNCHANGED <<i, p>>
              ELSE /\ UNCHANGED <<pc, result>>
                   /\ IF p = Len(particles)
                      THEN p' = 1 /\ i' = i + 1
                      ELSE p' = p + 1 /\ UNCHANGED i
    /\ UNCHANGED <<alg, req_Lm, n_iter, fitness, st, notPso>>

\* lines 132-151: the body of "for p in particles"
PsoUpdateParticle ==
    /\ alg = "pso_opt" /\ pc = "loop" /\ i < n_iter
    /\ \E r1 \in RandHalves, r2 \in RandHalves, now \in Ticks :
         \E u \in {update_position(particles[p], r1, r2, global_best_position, req_Lm)} :
           /\ clock' = now
           /\ particles' = [particles EXCEPT ![p] = Kept(u)]
           /\ IF u.new_obj < global_best_obj /\ PsoConverged(u.new_obj)
              THEN /\ pc' = "done"
                   /\ result' = PositionTire(u.position)
                   /\ UNCHANGED <<global_best_position, global_best_obj, i, p>>
              ELSE /\ IF u.new_obj < global_best_obj
                      THEN /\ global_best_obj' = u.new_obj
                           /\ global_best_position' = u.position
                      ELSE UNCHANGED <<global_best_position, global_best_obj>>
                   /\ IF now - st >= Runtime
                      THEN /\ pc' = "done"
                           /\ result' = PositionTire(u.position)
                           /\ UNCHANGED <<i, p>>
                      ELSE /\ UNCHANGED <<pc, result>>
                           /\ IF p = Len(particles)
                              THEN p' = 1 /\ i' = i + 1
                              ELSE p' = p + 1 /\ UNCHANGED i
    /\ UNCHANGED <<alg, req_Lm, n_iter, fitness, st, notPso>>

\* lines 155-158: the loop ran out
PsoLoopEnd ==
    /\ alg = "pso_opt" /\ pc = "loop" /\ i >= n_iter
    /\ clock' \in Ticks
    /\ pc' = "done"
    /\ result' = PositionTire(global_best_position)
    /\ UNCHANGED <<alg, req_Lm, n_iter, fitness, i, st, psoVars, notPso>>

PsoNext == PsoCreateParticle \/ PsoUpdateParticle \/ PsoLoopEnd

SpecPSO == PsoInit /\ [][PsoNext]_vars

--------------------------------------------------------------------------
(* Properties of pso_opt, under SpecPSO *)

\* D < DF < Dm, 0.5 <= (Dm - D)/(2 Wm) <= 1 and exact load >= req
DesignFeasible(d, req) ==
    /\ ~GeoRejected(d[2], d[3], d[4], d[5])
    /\ FGe(max_load_capacity(Tire(d[1], d[2], d[3], d[4], d[5], 0, TRUE), TRUE), 100 * req)

\* C1: every design a search strategy returns, on every return path,
\* satisfies D < DF < Dm, 0.5 <= (Dm - D)/(2 Wm) <= 1 and
\* max_load_capacity(exact=True) >= required load.
C1_ReturnedFeasible ==
    (alg = "pso_opt" /\ result.kind = "Tire") =>
        DesignFeasible(get_key_dim(result), req_Lm)

\* no design the strategy can draw satisfies the required load
NoFeasibleDesign == \A d \in RandomDims : calc_obj(d, req_Lm) = Inf

\* C2: when no design of the domain satisfies the required load, the
\* strategy stops within its runtime budget and returns None: it is not
\* still running after the budget is spent.
C2_StopsWithNone ==
    (alg = "pso_opt" /\ NoFeasibleDesign /\ clock > Runtime) =>
        (pc = "done" /\ result = RetNone)

\* C3: when the runtime budget is exceeded the search returns the best
\* design found so far (in pso_opt the global best), not the candidate
\* evaluated last: nothing seen has a lower objective than the result.
C3_ReturnsBestSoFar ==
    (alg = "pso_opt" /\ pc = "done") =>
        /\ calc_obj(get_key_dim(result), req_Lm) <= global_best_obj
        /\ \A k \in 1 .. Len(particles) :
               calc_obj(get_key_dim(result), req_Lm) <= particles[k].best_obj

\* the swarm is complete and the search has not returned
PsoRunning == alg = "pso_opt" /\ pc = "loop"

\* the global best is finite, the least of the particles' best objectives,
\* and the objective of the stored position
C17_GlobalBest ==
    PsoRunning =>
        /\ global_best_obj < Inf
        /\ \A k \in 1 .. Len(particles) : global_best_obj <= particles[k].best_obj
        /\ \E k \in 1 .. Len(particles) : global_best_obj = particles[k].best_obj
        /\ calc_obj(global_best_position, req_Lm) = global_best_obj

\* particle p moves towards the global best of the moment; a new objective
\* below the global best replaces it at once, with the new position
C17_Step ==
    /\ \E r1 \in RandHalves, r2 \in RandHalves :
          particles'[p] = Kept(update_position(particles[p], r1, r2,
                                               global_best_position, req_Lm))
    /\ global_best_obj' <= global_best_obj
    /\ \E new_obj \in {calc_obj(particles'[p].position, req_Lm)} :
          IF new_obj < global_best_obj
          THEN global_best_obj' = new_obj /\ global_best_position' = particles'[p].position
          ELSE global_best_obj' = global_best_obj
                   /\ global_best_position' = global_best_position

--------------------------------------------------------------------------
(* optimizations/genAlg.py: ga_opt *)

\* argument scopes of ga_opt: for each variable <<min, max>>
ScopesGA == [PR |-> <<8, 10>>, Dm |-> <<19, 19>>, Wm |-> <<6, 6>>,
             D |-> <<9, 9>>, DF |-> <<12, 14>>]

\* GA_Individual.mutated_gene(scope), for every draw of np.random.rand()
mutated_gene(scope) == {RandIn(scope, r) : r \in RandHalves}

\* GA_Individual.create_gnome(req_Lm, scopes), for every draw
create_gnome(req) ==
    {<<a, b, c, d, e, req>> :
        a \in mutated_gene(ScopesGA.PR), b \in mutated_gene(ScopesGA.Dm),
        c \in mutated_gene(ScopesGA.Wm), d \in mutated_gene(ScopesGA.D),
        e \in mutated_gene(ScopesGA.DF)}

\* GA_Individual(chromosome): the individual, or what cal_fitness raised
GA_Individual(chromosome) ==
    CHOOSE r \in {IF f.kind = "raise" THEN f
                  ELSE [kind |-> "GA_Individual", chromosome |-> chromosome,
                        fitness |-> f.val] :
                     f \in {cal_fitness(chromosome)}} : TRUE

\* lines 110-115 of mate: the genes the child may get from gp1 and gp2 for
\* the draws r/2 of prob
ChildGenes(gp1, gp2, scope) ==
    UNION {IF 100 * r < 100 - prob_mutate THEN {gp1}
           ELSE IF 50 * r < 100 - prob_mutate THEN {gp2}
           ELSE mutated_gene(scope) : r \in RandHalves}

\* GA_Individual.mate, past the test of prob_mutate: the chromosomes the
\* child may have
mate(par1, par2) ==
    {<<a, b, c, d, e, par1.chromosome[6]>> :
        a \in ChildGenes(par1.chromosome[1], par2.chromosome[1], ScopesGA.PR),
        b \in ChildGenes(par1.chromosome[2], par2.chromosome[2], ScopesGA.Dm),
        c \in ChildGenes(par1.chromosome[3], par2.chromosome[3], ScopesGA.Wm),
        d \in ChildGenes(par1.chromosome[4], par2.chromosome[4], ScopesGA.D),
        e \in ChildGenes(par1.chromosome[5], par2.chromosome[5], ScopesGA.DF)}

\* sorted(population, key=lambda x: x.fitness): stable, increasing
Rank(pop, j) ==
    Cardinality({k \in 1 .. Len(pop) :
                    \/ pop[k].fitness < pop[j].fitness
                    \/ (pop[k].fitness = pop[j].fitness /\ k < j)}) + 1

sorted(pop) == [r \in 1 .. Len(pop) |-> pop[CHOOSE j \in 1 .. Len(pop) : Rank(pop, j) = r]]

\* elitism by the tenth alone, without the minimum of one individual
Elites_Tenth == pop_size \div 10

\* the number of elites: lines 182-185
Elites == IF pop_size <= 10 THEN 1 ELSE pop_size \div 10

\* Tire(PR=population[0].chromosome[0], ...) of lines 206-210, 217-221, 228-232
ChromosomeTire(ind) ==
    Tire(ind.chromosome[1], ind.chromosome[2], ind.chromosome[3],
         ind.chromosome[4], ind.chromosome[5], 0, FALSE)

\* the designs the caller may pass as init_gene, without the load: none,
\* one the predicate accepts, one with DF <= D
GaInitGenes == {<<>>, <<9, 19, 6, 9, 12>>, <<8, 19, 6, 9, 9>>}

GaLoads == {3000, 9000}

GaInit ==
    /\ alg = "ga_opt"
    /\ pc = "start"
    /\ clock = 0
    /\ req_Lm \in GaLoads
    /\ \E g \in GaInitGenes : init_gene = IF g = <<>> THEN g ELSE g \o <<req_Lm>>
    /\ prob_mutate \in {0, 50, 150}
    /\ n_iter \in 0 .. 2
    /\ pop_size \in {2, 3}
                    \cup (IF init_gene # <<>> /\ prob_mutate # 50 THEN {20} ELSE {})
                    \cup (IF init_gene = <<>> /\ prob_mutate = 50 /\ n_iter = 2 THEN {4} ELSE {})
    /\ fitness = 150
    /\ i = 0
    /\ st = 0
    /\ result = NotCalled
    /\ population = <<>> /\ new_generation = <<>> /\ curr_best = 0
    /\ EvalUnused /\ RsUnused /\ PsoUnused /\ BoUnused
    /\ \E speed_index \in IF n_iter <= 1 /\ pop_size <= 3 THEN SpeedIndexes ELSE {0} :
          caller = CallerHolds(req_Lm, init_gene, ScopesGA, speed_index)
    /\ self = NotCalled

\* lines 157-162: the sanity check
GaSanityCheck ==
    /\ alg = "ga_opt" /\ pc = "start"
    /\ clock' \in Ticks
    /\ IF pop_size < 3
       THEN pc' = "raised" /\ result' = Raise("ValueError")
       ELSE pc' = "init" /\ UNCHANGED result
    /\ UNCHANGED <<alg, req_Lm, n_iter, fitness, i, st, gaVars, notGa>>

\* lines 164-176: one pass of the loop that creates an individual (with no
\* init_gene, one pass of its while loop); the pass that completes the
\* population goes on to sort it
GaCreateIndividual ==
    /\ alg = "ga_opt" /\ pc = "init"
    /\ \E g \in IF init_gene = <<>> THEN create_gnome(req_Lm) ELSE {init_gene},
          now \in Ticks :
         \E gnome \in {GA_Individual(g)} :
           /\ clock' = now
           /\ IF gnome.kind = "raise"
              THEN pc' = "raised" /\ result' = gnome /\ UNCHANGED <<population, curr_best>>
              ELSE IF init_gene = <<>> /\ gnome.fitness = Inf
              THEN UNCHANGED <<pc, result, population, curr_best>>
              ELSE IF Len(population) + 1 < pop_size
              THEN /\ population' = Append(population, gnome)
                   /\ UNCHANGED <<pc, result, curr_best>>
              ELSE /\ population' = sorted(Append(population, gnome))
                   /\ curr_best' = population'[1].fitness
                   /\ pc' = "gen"
                   /\ UNCHANGED result
    /\ UNCHANGED <<alg, req_Lm, n_iter, fitness, i, st, pop_size, prob_mutate,
                   init_gene, new_generation, notGa>>

\* the convergence test switched off
GaConverged_Never(best) == FALSE

\* lines 202-203: (curr_best - fitness) / curr_best <= conv_fitness and
\* curr_best != float('inf')
GaConverged(best) ==
    curr_best # Inf /\ (curr_best - best) * 1000 <= fitness * curr_best

\* lines 178-226: one mating of a generation; the first one follows the
\* elitism of lines 181-186, the last one goes on to lines 196-221
GaMate ==
    /\ alg = "ga_opt" /\ pc = "gen" /\ i < n_iter
    /\ IF prob_mutate > 100 \/ prob_mutate < 0
       THEN /\ pc' = "raised" /\ result' = Raise("ValueError")
            /\ clock' \in Ticks
            /\ UNCHANGED <<population, new_generation, curr_best, i>>
       ELSE \E j1 \in 1 .. (pop_size \div 2), j2 \in 1 .. (pop_size \div 2), now \in Ticks :
            \E c \in mate(population[j1], population[j2]) :
            \E child \in {GA_Individual(c)} :
            \E gen \in {Append(IF new_generation = <<>>
                               THEN SubSeq(population, 1, Elites)
                               ELSE new_generation, child)} :
              /\ clock' = now
              /\ IF child.kind = "raise"
                 THEN /\ pc' = "raised" /\ result' = child
                      /\ UNCHANGED <<population, new_generation, curr_best, i>>
                 ELSE IF Len(gen) < pop_size
                 THEN /\ new_generation' = gen
                      /\ UNCHANGED <<pc, result, population, curr_best, i>>
                 ELSE \E pop \in {sorted(gen)} :
                      /\ population' = pop
                      /\ new_generation' = <<>>
                      /\ IF pop[1].fitness < curr_best /\ GaConverged(pop[1].fitness)
                         THEN /\ pc' = "done" /\ result' = ChromosomeTire(pop[1])
                              /\ UNCHANGED <<curr_best, i>>
                         ELSE /\ curr_best' = Min(pop[1].fitness, curr_best)
                              /\ IF now - st >= Runtime
                                 THEN /\ pc' = "done" /\ result' = ChromosomeTire(pop[1])
                                      /\ UNCHANGED i
                                 ELSE i' = i + 1 /\ UNCHANGED <<pc, result>>
    /\ UNCHANGED <<alg, req_Lm, n_iter, fitness, st, pop_size, prob_mutate, init_gene, notGa>>

\* lines 228-232: the loop ran out
GaLoopEnd ==
    /\ alg = "ga_opt" /\ pc = "gen" /\ i >= n_iter
    /\ clock' \in Ticks
    /\ pc' = "done"
    /\ result' = ChromosomeTire(population[1])
    /\ UNCHANGED <<alg, req_Lm, n_iter, fitness, i, st, gaVars, notGa>>

GaNext == GaSanityCheck \/ GaCreateIndividual \/ GaMate \/ GaLoopEnd

SpecGA == GaInit /\ [][GaNext]_vars

--------------------------------------------------------------------------
(* Properties of ga_opt, under SpecGA *)

InvalidHyperparameters == pop_size < 3 \/ prob_mutate > 100 \/ prob_mutate < 0

\* C7: invalid hyperparameters of ga_opt (pop_size < 3, prob_mutate outside
\* [0, 1]) raise at call time, before the initial population is built: no
\* individual is ever created under them, and the call does not return.
C7_RaisesAtCallTime ==
    (alg = "ga_opt" /\ InvalidHyperparameters) =>
        /\ population = <<>>
        /\ pc # "done"
        /\ pc = "raised" => result = Raise("ValueError")

\* a mating of a generation is about to run
GaMating == alg = "ga_opt" /\ pc = "gen" /\ i < n_iter

\* s of the claim: one elite up to a population of 10, else a tenth
ElitesOf(n) == IF n <= 10 THEN 1 ELSE n \div 10

\* the next generation as built so far: the elites, then the children
GenBase ==
    IF new_generation = <<>> THEN SubSeq(population, 1, ElitesOf(pop_size))
    ELSE new_generation

\* the children two parents of the fittest half may have
ChildrenOfFittestHalf ==
    {GA_Individual(c) :
        c \in UNION {mate(par1, par2) :
                        par1 \in {population[j] : j \in 1 .. (pop_size \div 2)},
                        par2 \in {population[j] : j \in 1 .. (pop_size \div 2)}}}

IsAscending(pop) ==
    \A a \in 1 .. Len(pop), b \in 1 .. Len(pop) :
        a < b => pop[a].fitness <= pop[b].fitness

\* the same individuals, with the same multiplicities
SameIndividuals(a, b) ==
    /\ Len(a) = Len(b)
    /\ \A x \in {a[k] : k \in 1 .. Len(a)} \cup {b[k] : k \in 1 .. Len(b)} :
           Cardinality({k \in 1 .. Len(a) : a[k] = x})
               = Cardinality({k \in 1 .. Len(b) : b[k] = x})

C14_Population ==
    (alg = "ga_opt" /\ pc \in {"gen", "done"}) =>
        /\ Len(population) = pop_size
        /\ IsAscending(population)
        /\ pop_size \div 2 >= 1
        /\ new_generation # <<>> =>
              /\ Len(new_generation) < pop_size
              /\ SubSeq(new_generation, 1, ElitesOf(pop_size))
                     = SubSeq(population, 1, ElitesOf(pop_size))

C14_Step ==
    \E child \in ChildrenOfFittestHalf :
        IF Len(GenBase) + 1 < pop_size
        THEN new_generation' = Append(GenBase, child) /\ population' = population
        ELSE /\ SameIndividuals(population', Append(GenBase, child))
             /\ new_generation' = <<>>

\* C14: every generation of ga_opt carries the s fittest individuals over
\* unchanged (s = 1 up to pop_size 10, else floor(0.1 * pop_size)) and adds
\* pop_size - s children of parents drawn from the fittest
\* floor(0.5 * pop_size), a pool that is not empty for pop_size >= 3; after
\* every generation the population has pop_size individuals in ascending
\* order of fitness.
C14_ElitismAndMating ==
    /\ []C14_Population
    /\ [][(GaMating /\ pc' # "raised") => C14_Step]_vars

\* a generation of a population above 10 is complete, and one of a
\* population of 3 whose individuals differ
C14_GenerationDone ==
    alg = "ga_opt" /\ pc = "gen" /\ i >= 1 /\ new_generation = <<>>
        /\ (pop_size > 10 \/ population[1] # population[pop_size])

\* the mating that completes a generation: the sorted new population is
\* in place
GenerationCompleted == GaMating /\ pc' # "raised" /\ new_generation' = <<>>

\* lines 198-212 after a generation: the best is not above the one before,
\* which curr_best held; curr_best takes the new best unless the call
\* returns on convergence
C28_Step ==
    /\ population'[1].fitness <= population[1].fitness
    /\ curr_best = population[1].fitness
    /\ curr_best' = IF pc' = "done" /\ population'[1].fitness < curr_best
                       /\ GaConverged(population'[1].fitness)
                    THEN curr_best
                    ELSE population'[1].fitness

\* C28: in ga_opt the fitness of the best individual (population[0] after
\* sorting) never increases from one generation to the next, and curr_best
\* equals the lowest best fitness of the earlier generations: between
\* generations it is the fitness of population[0], which is the lowest so
\* far because the best never increases.
C28_BestNeverIncreases ==
    /\ []((alg = "ga_opt" /\ pc = "gen") => curr_best = population[1].fitness)
    /\ [][GenerationCompleted => C28_Step]_vars

\* a generation lowered the best fitness below that of the seed the whole
\* initial population was made of, and the loop went on
C28_BestImproved ==
    /\ alg = "ga_opt" /\ pc = "gen" /\ i >= 1 /\ new_generation = <<>>
    /\ init_gene # <<>>
    /\ curr_best < GA_Individual(init_gene).fitness

\* C15: ga_opt never selects an infeasible individual to survive: at the
\* start of every generation the individuals carried over as elites and
\* the individuals of the pool the parents are drawn from (each of which
\* np.random.choice can draw) have a finite fitness.
C15_InfeasibleNeverSelected ==
    GaMating =>
        \A j \in 1 .. Len(population) :
            (j <= ElitesOf(pop_size) \/ j <= pop_size \div 2)
                => population[j].fitness # Inf

\* the mating that completes a generation
GenerationEnds == GaMating /\ Len(GenBase) + 1 = pop_size /\ pc' # "raised"

\* (prev - best) / prev <= conv_fitness, conv_fitness in thousandths; the
\* quotient is nan, and the comparison false, when prev is infinite
ImprovementWithin(prev, best) ==
    prev # Inf /\ (prev - best) * 1000 <= fitness * prev

\* the design of the individual of lowest fitness of the population
LowestFitnessDesign(pop) ==
    ChromosomeTire(CHOOSE x \in {pop[k] : k \in 1 .. Len(pop)} :
                       /\ \A k \in 1 .. Len(pop) : x.fitness <= pop[k].fitness
                       /\ x = pop[1])

\* ga_opt went on to the next generation, or returned the best design
C16_GoesOnOrReturns(stop) ==
    IF stop
    THEN pc' = "done" /\ result' = LowestFitnessDesign(population')
    ELSE pc' = "gen" /\ i' = i + 1 /\ result' = result

\* at most n_iter generations, and the best design at the cap
C16_Cap ==
    /\ [](alg = "ga_opt" => i <= n_iter)
    /\ [][(alg = "ga_opt" /\ pc = "gen" /\ i >= n_iter) =>
             (pc' = "done" /\ result' = LowestFitnessDesign(population))]_vars

\* C16 as stated: with its population built, ga_opt runs at most n_iter
\* generations; it stops at the first generation whose best fitness improves
\* on the previous best by a relative amount within the tolerance, or at
\* which the runtime is reached, or at the cap, and returns the design of the
\* individual of lowest fitness.
C16_Terminates ==
    /\ C16_Cap
    /\ [][GenerationEnds =>
             C16_GoesOnOrReturns(\/ ImprovementWithin(curr_best, population'[1].fitness)
                                 \/ clock' - st >= Runtime)]_vars

\* C16, amended: the convergence test applies only to a generation whose
\* best fitness is strictly lower than the previous best; a generation
\* without improvement does not stop the search.
C16_Terminates_Amended ==
    /\ C16_Cap
    /\ [][GenerationEnds =>
             C16_GoesOnOrReturns(\/ /\ population'[1].fitness < curr_best
                                    /\ ImprovementWithin(curr_best, population'[1].fitness)
                                 \/ clock' - st >= Runtime)]_vars

\* ga_opt is past a generation that neither converged nor ran out of time
C16_WentOn ==
    alg = "ga_opt" /\ pc = "gen" /\ i >= 1 /\ new_generation = <<>>
        /\ curr_best = population[1].fitness /\ curr_best # Inf

--------------------------------------------------------------------------
(* optimizations/bayesOps.py: bayesOps_opt *)

\* argument init_points of bayesOps_opt
init_points == 1

\* the attempts of the retry loops the model follows
MaxAttempts == 12

BoLoads == {2000, 9000}

BoInit ==
    /\ alg = "bayesOps_opt"
    /\ pc = "attempt"
    /\ clock = 0
    /\ req_Lm \in BoLoads
    /\ n_iter \in 0 .. 1
    /\ fitness = 0 /\ i = 0 /\ st = 0
    /\ result = NotCalled
    /\ counter = 0 /\ n_probed = 0 /\ optimizer_max = <<>>
    /\ EvalUnused /\ RsUnused /\ PsoUnused /\ GaUnused
    /\ \E speed_index \in SpeedIndexes :
          caller = CallerHolds(req_Lm, <<>>, ScopesC, speed_index)
    /\ self = NotCalled

\* lines 141-152 and 84-86: a pass of "while not tire" up to the
\* construction of the optimizer, which has no observation
BoStartAttempt ==
    /\ alg = "bayesOps_opt" /\ pc = "attempt" /\ counter < MaxAttempts
    /\ counter' = counter + 1
    /\ n_probed' = 0
    /\ optimizer_max' = <<>>
    /\ pc' = "maximize"
    /\ clock' \in Ticks
    /\ UNCHANGED <<alg, req_Lm, result, n_iter, fitness, i, st, notBo>>

\* lines 88-92: optimizer.maximize evaluates objective_func at one more
\* point of the bounds; which point is the library's choice
BoProbe ==
    /\ alg = "bayesOps_opt" /\ pc = "maximize" /\ n_probed < init_points + n_iter
    /\ \E x \in RandomDims :
         \E target \in {objective_func(x[2], x[3], x[4], x[5], x[1], req_Lm)} :
           optimizer_max' = IF optimizer_max = <<>> \/ target > optimizer_max.target
                            THEN [params |-> x, target |-> target]
                            ELSE optimizer_max
    /\ n_probed' = n_probed + 1
    /\ clock' \in Ticks
    /\ UNCHANGED <<alg, pc, req_Lm, result, n_iter, fitness, i, st, counter, notBo>>

\* lines 94-103 and 141: the tire of optimizer.max is returned if its
\* rounded load is at least req_Lm; otherwise tire is None and the while
\* loop goes round
BoValidate ==
    /\ alg = "bayesOps_opt" /\ pc = "maximize" /\ n_probed = init_points + n_iter
    /\ \E tire \in {PositionTire(optimizer_max.params)} :
         IF FGe(max_load_capacity(tire, FALSE), 100 * req_Lm)
         THEN pc' = "done" /\ result' = tire
         ELSE pc' = "attempt" /\ UNCHANGED result
    /\ clock' \in Ticks
    /\ UNCHANGED <<alg, req_Lm, n_iter, fitness, i, st, boVars, notBo>>

BoNext == BoStartAttempt \/ BoProbe \/ BoValidate

SpecBayes == BoInit /\ [][BoNext]_vars

\* C9: bayesOps_opt returns a design only when the final candidate of an
\* attempt passed re-validation, and a candidate that passes is one whose
\* objective value was not the infeasibility penalty.
C9_ReturnedNotPenalised ==
    (alg = "bayesOps_opt" /\ result.kind = "Tire") =>
        /\ get_key_dim(result) = optimizer_max.params
        /\ FGe(max_load_capacity(result, FALSE), 100 * req_Lm)
        /\ optimizer_max.target # Penalty

--------------------------------------------------------------------------
(* optimizer.py and optimizations/gradients.py: gradients_opt *)

\* the attempt at which optimizer.gradients_opt breaks out of its loop
RetryCap == 10

\* what the driver of _gradients_opt may leave in Dm, Wm, D, DF, PR when it
\* does not fail, as [PR, Dm, Wm, D, DF]
GradDesigns == {<<10, 21, 7, 10, 12>>, <<9, 19, 6, 9, 12>>}

GradLoads == {3000, 5000}

IsGrad == alg \in {"optimizer.gradients_opt", "gradients.gradients_opt"}

GradInit ==
    /\ IsGrad
    /\ pc = "attempt"
    /\ clock = 0
    /\ req_Lm \in GradLoads
    /\ n_iter = 0 /\ fitness = 0 /\ i = 0 /\ st = 0
    /\ result = NotCalled
    /\ counter = 0 /\ n_probed = 0 /\ optimizer_max = <<>>
    /\ EvalUnused /\ RsUnused /\ PsoUnused /\ GaUnused
    /\ caller = CallerHolds(req_Lm, <<>>, ScopesC, 0)
    /\ self = NotCalled

\* _gradients_opt: None when the driver reports failure, else the tire of
\* its values (D is passed as RD and taken from it)
GradOutcomes == {RetNone} \cup {PositionTire(d) : d \in GradDesigns}

\* one pass of "while not tire" in which "req_Lm += 1" changes the number
\* the caller holds, as it would an object shared with the caller
GradAttempt_SharedLoad ==
    /\ IsGrad /\ pc = "attempt" /\ counter < MaxAttempts
    /\ counter' = counter + 1
    /\ req_Lm' = req_Lm + 1
    /\ caller' = [caller EXCEPT !.req_Lm = req_Lm + 1]
    /\ \E tire \in GradOutcomes :
         IF tire # RetNone \/ (alg = "optimizer.gradients_opt" /\ counter' = RetryCap)
         THEN pc' = "done" /\ result' = tire
         ELSE UNCHANGED <<pc, result>>
    /\ clock' \in Ticks
    /\ UNCHANGED <<alg, n_iter, fitness, i, st, n_probed, optimizer_max,
                   evalVars, rsVars, psoVars, gaVars, self>>

\* one pass of "while not tire" without "if counter == 10: break" in either
\* module
GradAttempt_NoBreak ==
    /\ IsGrad /\ pc = "attempt" /\ counter < MaxAttempts
    /\ counter' = counter + 1
    /\ req_Lm' = req_Lm + 1
    /\ \E tire \in GradOutcomes :
         IF tire # RetNone
         THEN pc' = "done" /\ result' = tire
         ELSE UNCHANGED <<pc, result>>
    /\ clock' \in Ticks
    /\ UNCHANGED <<alg, n_iter, fitness, i, st, n_probed, optimizer_max, notBo>>

\* optimizer.py lines 311-316 and gradients.py lines 192-197: one pass of
\* "while not tire"
GradAttempt ==
    /\ IsGrad /\ pc = "attempt" /\ counter < MaxAttempts
    /\ counter' = counter + 1
    /\ req_Lm' = req_Lm + 1
    /\ \E tire \in GradOutcomes :
         IF tire # RetNone \/ (alg = "optimizer.gradients_opt" /\ counter' = RetryCap)
         THEN pc' = "done" /\ result' = tire
         ELSE UNCHANGED <<pc, result>>
    /\ clock' \in Ticks
    /\ UNCHANGED <<alg, n_iter, fitness, i, st, n_probed, optimizer_max, notBo>>

GradNext == GradAttempt

SpecGrad == GradInit /\ [][GradNext]_vars

--------------------------------------------------------------------------
(* Calls in sequence: the loops of eval_rs, eval_ga and eval_pso call an   *)
(* entry point again with the same arguments                                *)

\* the inputs of the first call
CallsInit ==
    \/ RsInit /\ n_iter <= 1
    \/ PsoInit /\ n_iter <= 1
    \/ GaInit /\ n_iter <= 1 /\ pop_size <= 3
    \/ GradInit

\* the list a new call binds to init_dim / init_gene: the caller's, or the
\* default list of the entry point when the caller passes none
SeedOrDefault == IF caller.seed = <<>> THEN caller.defaults[alg] ELSE caller.seed

\* where a call of alg starts
EntryPc == IF alg = "pso_opt" THEN "init" ELSE IF IsGrad THEN "attempt" ELSE "start"

\* the call has returned or raised, and the caller calls the entry point
\* again with the objects it holds: the parameters are bound anew and the
\* locals of the new call are fresh
CallAgain ==
    /\ alg # "evaluators" /\ alg # "bayesOps_opt"
    /\ pc \in {"done", "raised"}
    /\ pc' = EntryPc
    /\ clock' = 0 /\ st' = 0 /\ i' = 0 /\ counter' = 0
    /\ result' = NotCalled
    /\ req_Lm' = caller.req_Lm
    /\ init_dim' = IF IsRs THEN SeedOrDefault ELSE init_dim
    /\ init_gene' = IF alg = "ga_opt" THEN SeedOrDefault ELSE init_gene
    /\ curr_best_tire' = NotCalled
    /\ particles' = <<>> /\ global_best_position' = <<>> /\ global_best_obj' = 0
    /\ p' = IF alg = "pso_opt" THEN 1 ELSE p
    /\ population' = <<>> /\ new_generation' = <<>> /\ curr_best' = 0
    /\ UNCHANGED <<alg, n_iter, fitness, pop_size, prob_mutate, evalVars,
                   n_probed, optimizer_max, caller, self>>

CallsNext == RsNext \/ PsoNext \/ GaNext \/ GradNext \/ CallAgain

SpecCalls == CallsInit /\ [][CallsNext]_vars

\* the objects are what the caller passed: the default lists are empty and
\* the running call reads its seed from the caller's list or the default
C18_ObjectsIntact ==
    /\ caller = CallerHolds(caller.req_Lm, caller.seed, caller.scopes, caller.speed_index)
    /\ caller.scopes = (IF alg = "rs_discrete" THEN ScopesD
                        ELSE IF alg = "ga_opt" THEN ScopesGA ELSE ScopesC)
    /\ IsRs => init_dim = SeedOrDefault
    /\ alg = "ga_opt" => init_gene = SeedOrDefault

C25_Loads ==
    /\ counter <= RetryCap
    /\ req_Lm = caller.req_Lm + counter
    /\ pc = "attempt" => (counter < RetryCap /\ result = NotCalled)
    /\ pc = "done" => /\ result.kind \in {"Tire", "None"}
                      /\ result = RetNone => counter = RetryCap

\* a call that returns a design ends the loop with that design, a failed
\* call is followed by the next one unless it was the tenth, and nothing
\* is called once the loop has ended
C25_Step ==
    /\ pc = "attempt" =>
          /\ counter' = counter + 1
          /\ \/ pc' = "done" /\ result' \in GradOutcomes \ {RetNone}
             \/ pc' = "done" /\ result' = RetNone /\ counter' = RetryCap
             \/ pc' = "attempt" /\ counter' < RetryCap
    /\ pc = "done" => UNCHANGED <<counter, req_Lm, result>>

\* C25: optimizer.gradients_opt calls the solver at most 10 times, the k-th
\* call with the required load req_Lm + (k - 1); it stops at the first call
\* that returns a design and returns it, calls nothing after a success, and
\* returns None exactly when all 10 calls failed.
C25_TenCalls ==
    /\ [](alg = "optimizer.gradients_opt" => C25_Loads)
    /\ [][alg = "optimizer.gradients_opt" => C25_Step]_vars

\* all ten calls failed and None was returned
C25_AllFailed ==
    /\ alg = "optimizer.gradients_opt"
    /\ pc = "done" /\ result = RetNone
    /\ counter = RetryCap /\ req_Lm = caller.req_Lm + RetryCap

\* the five values d = [PR, Dm, Wm, D, DF, ...] lie between the first and
\* the last entry of their scopes
InScopes(d, scopes) ==
    \A ind \in 1 .. 5 :
        /\ scopes[design_var[ind]][1] <= d[ind]
        /\ d[ind] <= scopes[design_var[ind]][Len(scopes[design_var[ind]])]

\* C27: every design returned by rs_continuous, ga_opt and pso_opt has each
\* of PR, Dm, Wm, D and DF inside the caller's scope [min, max] of that
\* variable, any seed of the caller being inside the scopes itself.
C27_ReturnedInScopes ==
    (/\ alg \in {"rs_continuous", "ga_opt", "pso_opt"}
     /\ pc = "done" /\ result.kind = "Tire"
     /\ caller.seed # <<>> => InScopes(caller.seed, caller.scopes)) =>
        InScopes(get_key_dim(result), caller.scopes)

\* C8: both gradients_opt make a bounded number of attempts, each with the
\* required load incremented, and return None once the attempts are used
\* up: after RetryCap attempts the entry point has returned.
C8_BoundedRetries ==
    (IsGrad /\ counter >= RetryCap) => (pc = "done" /\ result.kind \in {"Tire", "None"})

--------------------------------------------------------------------------
(* The methods of the oracle called on one Tire object, in any order and   *)
(* more than once                                                           *)

\* Tire objects at and around the lift ratios Lr = Dm / D at which
\* ratio_of_ends_per_inch changes its formula: 1.5, 1.54, 2.2, 5, 5.5 and 6
LiftRatioDims ==
    {<<10, 18, 6, 12, 14>>, <<10, 20, 6, 13, 14>>, <<10, 22, 7, 10, 12>>,
     <<10, 50, 20, 10, 12>>, <<10, 55, 24, 10, 12>>, <<10, 60, 25, 10, 12>>}

\* the keywords PR, Dm, Wm, D, DF of the Tire objects; the exact load of the
\* last two is, to the hundredth of a pound, halfway between two multiples
\* of 25 (2662.50 and 3987.50)
OracleDims ==
    {<<10, 21, 7, 10, 12>>, <<8, 18, 6, 8, 12>>, <<8, 60, 20, 36, 40>>,
     <<24, 50, 14, 32, 40>>, <<11, 20, 5, 14, 18>>, <<8, 17, 6, 10, 11>>}
    \cup LiftRatioDims


\* the keywords Pre and SI: Pre left out ('') or the prefix of a 35 %
\* deflection tire, with SI left out (0) as in every Tire the searches
\* build; for one tire above and one below a pressure of 100, also 'H' and
\* speed indices below, at and above 160
OracleKeywords(d) ==
    {<<"", 0>>, <<"B", 0>>}
    \cup (IF d \in {<<10, 21, 7, 10, 12>>, <<8, 60, 20, 36, 40>>}
          THEN {<<Pre, SI>> : Pre \in {"", "H"}, SI \in {120, 160, 161, 210}}
          ELSE {})

\* the calls made on one object
MaxCalls == 3

\* tire = Tire(Pre=..., SI=..., PR=..., Dm=..., Wm=..., D=..., DF=...); out is the
\* list of the calls made so far with what each returned
OracleInit ==
    /\ alg = "Tire"
    /\ pc = "call"
    /\ clock = 0
    /\ req_Lm = 0
    /\ dim \in OracleDims
    /\ \E kw \in OracleKeywords(dim) :
         self = [Tire(dim[1], dim[2], dim[3], dim[4], dim[5], kw[2], FALSE)
                     EXCEPT !.Pre = kw[1]]
    /\ out = <<>>
    /\ result = NotCalled
    /\ n_iter = 0 /\ fitness = 0 /\ i = 0 /\ st = 0
    /\ RsUnused /\ PsoUnused /\ GaUnused /\ BoUnused
    /\ caller = CallerHolds(req_Lm, <<>>, <<>>, 0)

\* a method called with the arguments args returns ret: no method of the
\* class assigns to an attribute of self
Returns(method, args, ret) ==
    /\ alg = "Tire"
    /\ Len(out) < MaxCalls
    /\ out' = Append(out, [method |-> method, args |-> args, ret |-> ret])
    /\ UNCHANGED <<alg, pc, clock, req_Lm, dim, result, n_iter, fitness, i, st, notEval>>

CallMaxLoadCapacity ==
    \E exact \in BOOLEAN :
        Returns("max_load_capacity", <<exact>>, max_load_capacity(self, exact))

CallGroundContactArea ==
    \E b100 \in {32, 35} :
        Returns("ground_contact_area", <<b100>>, ground_contact_area(self, b100))

\* pressure_index in which the effective number of plies is stored back in
\* the attribute PR
CallPressureIndex_StoresPlies ==
    /\ alg = "Tire"
    /\ Len(out) < MaxCalls
    /\ out' = Append(out, [method |-> "pressure_index", args |-> <<>>,
                           ret |-> pressure_index(self)])
    /\ self' = [self EXCEPT !.PR = self.PR - 1]
    /\ UNCHANGED <<alg, pc, clock, req_Lm, dim, result, n_iter, fitness, i, st,
                   rsVars, psoVars, gaVars, boVars, caller>>

CallPressureIndex == Returns("pressure_index", <<>>, pressure_index(self))

CallRatioOfEndsPerInch ==
    Returns("ratio_of_ends_per_inch", <<>>, ratio_of_ends_per_inch(self))

CallInflationPressure == Returns("inflation_pressure", <<>>, inflation_pressure(self))

CallInflationMediumMass ==
    Returns("inflation_medium_mass", <<>>, inflation_medium_mass(self))

CallCordTensionNetting ==
    Returns("cord_tension_netting", <<>>, cord_tension_netting(self))

CallCordTensionWalter ==
    Returns("cord_tension_walter", <<>>, cord_tension_walter(self))

CallIsMechFeasible == Returns("is_mech_feasible", <<>>, is_mech_feasible(self))

OracleNext ==
    \/ CallMaxLoadCapacity \/ CallGroundContactArea \/ CallPressureIndex
    \/ CallRatioOfEndsPerInch
    \/ CallInflationPressure \/ CallInflationMediumMass
    \/ CallCordTensionNetting \/ CallCordTensionWalter \/ CallIsMechFeasible

SpecOracle == OracleInit /\ [][OracleNext]_vars

\* two calls of one method with the same arguments returned the same value
C19_SameReturns ==
    \A j, k \in DOMAIN out :
        (out[j].method = out[k].method /\ out[j].args = out[k].args)
            => out[j].ret = out[k].ret

\* the attributes are those the constructor set from the keywords
C19_AsConstructed ==
    /\ self = [Tire(dim[1], dim[2], dim[3], dim[4], dim[5], self.SI, FALSE)
                   EXCEPT !.Pre = self.Pre]
    /\ <<self.Pre, self.SI>> \in OracleKeywords(dim)

LoadsReturned(e) ==
    {out[j].ret : j \in {k \in DOMAIN out : /\ out[k].method = "max_load_capacity"
                                            /\ out[k].args = <<e>>}}

\* C21: max_load_capacity(exact=False) is the nearest multiple of 25 to
\* max_load_capacity(exact=True): a multiple of 25 no further than 12.5 from
\* the exact load, and an exact load halfway between two multiples goes by
\* one rule, to the even multiple (np.round).
C21_NearestMultiple ==
    alg = "Tire" =>
        \A exact \in LoadsReturned(TRUE), rounded \in LoadsReturned(FALSE) :
            /\ rounded % 2500 = 0
            /\ rounded - exact <= 1250
            /\ exact - rounded <= 1250
            /\ (rounded - exact = 1250 \/ exact - rounded = 1250)
                  => (rounded \div 2500) % 2 = 0

\* both loads were returned for a Tire whose exact load is halfway, once
\* rounded down and once rounded up
C21_HalfwayRounded ==
    /\ alg = "Tire"
    /\ \E exact \in LoadsReturned(TRUE), rounded \in LoadsReturned(FALSE) :
          IF self.PR = 11 THEN exact - rounded = 1250 ELSE rounded - exact = 1250

\* 10^4 * (1.475 - 0.331 * Lr) for Lr = L / 10^4
ReLinear4(L) == 14750 - MulDiv(L, 331, 1000)

\* the value the lift ratio Dm / D calls for, the interval being read off
\* Dm and D themselves
ReByInterval(Dm, D) ==
    IF 10 * Dm <= 15 * D THEN ReLinear4((Dm * 10000) \div D)
    ELSE IF 10 * Dm < 22 * D THEN ReLinear4((Dm * 10000) \div D)
    ELSE IF Dm < 5 * D THEN RePoly4((Dm * 10000) \div D)
    ELSE RePoly4(50000)

\* C22: ratio_of_ends_per_inch chooses its formula by Lr = Dm / D: the
\* linear one for 1.5 < Lr < 2.2 and also for Lr <= 1.5, the polynomial of
\* degree 5 for 2.2 <= Lr < 5, and for every Lr >= 5 the one value of the
\* polynomial at 5.
C22_Piecewise ==
    alg = "Tire" =>
        \A j \in DOMAIN out :
            out[j].method = "ratio_of_ends_per_inch"
                => out[j].ret = ReByInterval(self.Dm, self.D)

\* the ratio was returned for a Tire of lift ratio 6, past the polynomial's
\* interval
C22_ClampedAbove ==
    /\ alg = "Tire"
    /\ self.Dm = 6 * self.D
    /\ \E j \in DOMAIN out : /\ out[j].method = "ratio_of_ends_per_inch"
                             /\ out[j].ret = RePoly4(50000)

\* 100 * the pressure of the 35 % deflection, solved from the rounded load:
\* max_load_capacity() / (0.35 + 0.45) / ground_contact_area(b=0.35) - Pc
Deflection35(t) ==
    MulDiv(MulDiv(max_load_capacity(t, FALSE), 100, 80), 1000, ground_contact_area(t, 35))
        - load_supporting_capability(t)

\* 100 * (P + X * Pc + 3) with X = 0.5 for P > 100 and 0.01 * P - 0.5 otherwise
Indicated(P, Pc) ==
    IF P > 10000 THEN P + Pc \div 2 + 300
    ELSE P + MulDiv(P - 5000, Pc, 10000) + 300

\* every inflation_pressure returned is the indicated pressure of the 35 %
\* deflection when low holds of the Tire, and of pressure_index otherwise
InflationBy(low) ==
    alg = "Tire" =>
        \A j \in DOMAIN out :
            out[j].method = "inflation_pressure" =>
                out[j].ret = Indicated(IF low THEN Deflection35(self) ELSE pressure_index(self),
                                       load_supporting_capability(self))

\* C23: inflation_pressure uses the 35 % deflection whenever Pre is 'B' or
\* 'H' or the speed index is at most 160, and pressure_index in all other
\* cases; the result is P + X * Pc + 3 with X = 0.5 for P > 100 and
\* X = 0.01 * P - 0.5 otherwise.
C23_DeflectionChoice == InflationBy(self.Pre \in {"B", "H"} \/ self.SI <= 160)

\* C23 with the speed index counted only when one is given: the 35 %
\* deflection is used whenever Pre is 'B' or 'H' or the speed index is not
\* zero and at most 160, and pressure_index in all other cases; the result
\* is P + X * Pc + 3 with X as above.
C23_DeflectionChoice_Amended ==
    InflationBy(self.Pre \in {"B", "H"} \/ (self.SI # 0 /\ self.SI <= 160))

\* inflation_pressure was returned for a Tire built without Pre and SI
C23_NoSpeedIndexGiven ==
    /\ alg = "Tire"
    /\ self.Pre = "" /\ self.SI = 0
    /\ \E j \in DOMAIN out : /\ out[j].method = "inflation_pressure"
                             /\ out[j].ret = Indicated(pressure_index(self),
                                                       load_supporting_capability(self))

--------------------------------------------------------------------------
(* The argument speed_index of rs_discrete, rs_continuous, ga_opt, pso_opt *)
(* and bayesOps_opt: the searches called with and without a speed index    *)

SpeedInit ==
    /\ RsInit \/ PsoInit \/ GaInit \/ BoInit
    /\ n_iter <= 1
    /\ pop_size <= 3

SpeedNext == RsNext \/ PsoNext \/ GaNext \/ BoNext

SpecSpeed == SpeedInit /\ [][SpeedNext]_vars

\* the Tire is the one its key dimensions give with every other keyword at
\* its default
DefaultKeywords(t) ==
    t.kind = "Tire" => (t.Pre = "" /\ t.SI = 0 /\ t = Tire(t.PR, t.Dm, t.Wm, t.D, t.DF, 0, TRUE))

====
